---- MODULE Spec2Model ----
(***************************************************************************)
(* Model of the logging library lib/logging.c (init_log, log_message,      *)
(* dispose_logging and the two log-rotation executors) together with the   *)
(* part of its environment it acts on: the files on disk and the wall      *)
(* clock.  The UNIX branch of check_for_new_rotation is modelled (the      *)
(* reference timestamp of a file is st_mtime, lines 263-295).              *)
(*                                                                         *)
(* Representation choices:                                                 *)
(*  - time_t is counted in hours (3600 s); localtime is the proleptic      *)
(*    Gregorian calendar at UTC offset 0.                                  *)
(*  - a file size (off_t, 64 bit) is a record [hi, lo] standing for        *)
(*    hi * 2^20 + lo bytes with 0 <= lo < 2^20, so that sizes beyond the   *)
(*    32-bit int range exist and the cast (int)st.st_size can truncate.    *)
(*  - int values are 32-bit two's complement; a signed overflow wraps      *)
(*    (what every mainstream build of the multiplication in init_log       *)
(*    produces).                                                           *)
(*  - a path is the string the code builds with snprintf / strcpy.         *)
(*                                                                         *)
(* Four specifications: Spec is the caller of the tests (init_log once,    *)
(* then writes, with system calls that succeed); SpecApi is any caller     *)
(* (the three functions in any order) with fopen, stat and rename that     *)
(* may fail; SpecRename is the caller of the tests with a rename that may  *)
(* fail; SpecInit is a caller that calls init_log again and again.         *)
(***************************************************************************)
EXTENDS Integers, Sequences, FiniteSets, TLC

VARIABLES
    pc,                     \* position of the calling program (tests' main)
    _level_for_logging,     \* static LogLevel            (logging.c:73)
    _on_console_only,       \* static bool                (logging.c:65)
    _log_rotation,          \* static LogRotation         (logging.c:78)
    _size_for_file_size,    \* static int                 (logging.c:81)
    _nbr_of_keeping_files,  \* static int                 (logging.c:85)
    _log_file_to_use,       \* static char[32]            (logging.c:54)
    _base_log_file,         \* static char[32]            (logging.c:60)
    _log_file_pointer,      \* static FILE*               (logging.c:68)
    open_files,             \* the number of FILE streams the process has open
    fs,                     \* the files on disk: path -> [data, size, mtime]
    now,                    \* the wall clock, time(NULL), in hours
    console,                \* number of lines printed to stdout
    cfg,                    \* history: the Logging struct passed to init_log
    nlines,                 \* history: number of accepted file writes so far
    rotated,                \* history: the content of the active file at
                            \* each call of _rotate_log_files, oldest first
    last                    \* history: what the last log_message call did

session == <<_level_for_logging, _on_console_only, _log_rotation,
             _size_for_file_size, _nbr_of_keeping_files, _log_file_to_use,
             _base_log_file, _log_file_pointer>>

vars == <<pc, _level_for_logging, _on_console_only, _log_rotation,
          _size_for_file_size, _nbr_of_keeping_files, _log_file_to_use,
          _base_log_file, _log_file_pointer, open_files, fs, now, console,
          cfg, nlines, rotated, last>>

---------------------------------------------------------------------------
(* Program constants                                                       *)

LOG_TRACE == 0
LOG_DEBUG == 1
LOG_INFO == 2
LOG_WARNING == 3
LOG_ERROR == 4
LOG_FATAL == 5

NO_ROTATION == 0
DAYLY_ROTATION == 1
SIZE_ROTATION == 2

LENGTH_FILE_NAME == 32
LENGTH_TIMESTAMP == 20

_default_log_name == "app.log"

_level_strings == <<"TRACE", "DEBUG", "INFO", "WARN", "ERROR", "FATAL">>

NULL == "NULL"

\* 1024*1024, the static initializer of _size_for_file_size
BytesPerMB == 1024 * 1024

\* strlen of LOG_MESSAGE, the text every test writes
LOG_MESSAGE_LEN == 25

---------------------------------------------------------------------------
(* Bounds of the model                                                     *)

\* accepted file writes (single lines and loops of lines) per run
MaxLines == 4
\* largest configured nbr_of_keeping_files
MaxKeep == 3
\* lines printed to the console per run
MaxConsole == 2
\* accepted file writes of single calls when system calls may fail
MaxApiLines == 3

---------------------------------------------------------------------------
(* 32-bit int arithmetic                                                   *)

\* the int whose two's complement representation has the 16-bit halves hi, lo
Int32Of(hi, lo) ==
    IF hi >= 32768 THEN (hi - 65536) * 65536 + lo ELSE hi * 65536 + lo

\* (x * y) modulo 2^16 for 0 <= x, y < 2^16, without leaving the int range
MulLow16(x, y) ==
    (((x * (y % 256)) % 65536) + (((x * (y \div 256)) % 256) * 256)) % 65536

\* a * b in 32-bit int arithmetic (the product modulo 2^32), computed on
\* 16- and 8-bit limbs so that no intermediate value leaves the int range
Mul32(a, b) ==
    LET al == a % 65536
        ah == (a \div 65536) % 65536
        bl == b % 65536
        bh == (b \div 65536) % 65536
        p0 == al * (bl % 256)
        p1 == al * (bl \div 256)
        low == p0 + ((p1 % 256) * 256)
        lo16 == low % 65536
        carry == (low \div 65536) + (p1 \div 256)
        hi16 == (carry + MulLow16(ah, bl) + MulLow16(al, bh)) % 65536
    IN Int32Of(hi16, lo16)

---------------------------------------------------------------------------
(* File sizes (off_t)                                                      *)

Off(h, l) == [hi |-> h, lo |-> l]

\* the size of n bytes, 0 <= n < 2^31
OffOfInt(n) == Off(n \div BytesPerMB, n % BytesPerMB)

\* s + n bytes, 0 <= n < 2^20
OffAdd(s, n) ==
    Off(s.hi + ((s.lo + n) \div BytesPerMB), (s.lo + n) % BytesPerMB)

OffLess(s, t) == s.hi < t.hi \/ (s.hi = t.hi /\ s.lo < t.lo)

\* (int)st.st_size: the low 32 bits of the size, read as a signed int
IntOfOff(s) ==
    LET h == s.hi % 4096
    IN (IF h >= 2048 THEN h - 4096 ELSE h) * BytesPerMB + s.lo

---------------------------------------------------------------------------
(* Clock and calendar                                                      *)

HoursPerDay == 24

\* The civil date of a day number counted from 1970-01-01 (Gregorian
\* calendar, years of 365/366 days in eras of 400 years starting 1 March).
YearOfEra(doe) ==
    (doe - (doe \div 1460) + (doe \div 36524) - (doe \div 146096)) \div 365

DayOfYear(doe, yoe) == doe - ((365 * yoe) + (yoe \div 4) - (yoe \div 100))

\* the month counted from March = 0, and the day of that month
MonthFromMarch(doy) == ((5 * doy) + 2) \div 153

DayOfMonth(doy, mp) == doy - (((153 * mp) + 2) \div 5) + 1

CivilOf(era, yoe, mp, d) ==
    [year |-> yoe + (era * 400) + (IF mp >= 10 THEN 1 ELSE 0),
     month |-> IF mp < 10 THEN mp + 3 ELSE mp - 9,
     day |-> d]

CivilOfYearDay(era, yoe, doy) ==
    CivilOf(era, yoe, MonthFromMarch(doy),
            DayOfMonth(doy, MonthFromMarch(doy)))

CivilOfEraDay(era, doe) ==
    CivilOfYearDay(era, YearOfEra(doe), DayOfYear(doe, YearOfEra(doe)))

CivilFromDays(days) ==
    CivilOfEraDay((days + 719468) \div 146097, (days + 719468) % 146097)

\* localtime / localtime_r: the broken-down fields the code reads
localtime(t) ==
    LET c == CivilFromDays(t \div HoursPerDay)
    IN [tm_year |-> c.year - 1900, tm_mon |-> c.month - 1, tm_mday |-> c.day,
        tm_hour |-> t % HoursPerDay]

\* "%02d"
Pad2(n) == IF n < 10 THEN "0" \o ToString(n) ELSE ToString(n)

\* strftime(date_stamp, ..., "%Y_%m_%d", tm_info)
DateStamp(tm) ==
    ToString(tm.tm_year + 1900) \o "_" \o Pad2(tm.tm_mon + 1) \o "_"
        \o Pad2(tm.tm_mday)

\* 2025-12-31 08:00, as hours since the epoch
T0 == (20453 * HoursPerDay) + 8

\* the instants the wall clock takes: two on one day, the next day (another
\* day, month and year) and 2026-01-31 (the same day of the month as T0)
Times == {T0, T0 + 12, T0 + 24, T0 + (31 * 24)}

---------------------------------------------------------------------------
(* The file system                                                         *)

NewFile(t) == [data |-> <<>>, size |-> Off(0, 0), mtime |-> t]

\* access(path, F_OK) == 0
access_ok(f, path) == path \in DOMAIN f

\* Faulty variant of rename: with the old name absent the new name is
\* created as an empty file.
rename_creating(f, old, new, ok) ==
    IF ~ok
    THEN [rc |-> -1, fs |-> f]
    ELSE IF old \notin DOMAIN f
    THEN [rc |-> -1, fs |-> (new :> NewFile(0)) @@ f]
    ELSE IF old = new
    THEN [rc |-> 0, fs |-> f]
    ELSE [rc |-> 0,
          fs |-> [p \in (DOMAIN f \ {old}) \cup {new} |->
                     IF p = new THEN f[old] ELSE f[p]]]

\* rename(old, new): -1 and no change when old does not exist (or the
\* system refuses: ok = FALSE); otherwise new is replaced by old
rename(f, old, new, ok) ==
    IF ~ok \/ old \notin DOMAIN f
    THEN [rc |-> -1, fs |-> f]
    ELSE IF old = new
    THEN [rc |-> 0, fs |-> f]
    ELSE [rc |-> 0,
          fs |-> [p \in (DOMAIN f \ {old}) \cup {new} |->
                     IF p = new THEN f[old] ELSE f[p]]]

\* remove(path)
remove(f, path) ==
    IF path \in DOMAIN f
    THEN [rc |-> 0, fs |-> [p \in DOMAIN f \ {path} |-> f[p]]]
    ELSE [rc |-> -1, fs |-> f]

\* Faulty variant of fopen_a: the file is opened with "w", which truncates it.
fopen_w(f, path, t, ok) ==
    IF ~ok \/ path = ""
    THEN [fp |-> NULL, fs |-> f]
    ELSE [fp |-> path,
          fs |-> [p \in DOMAIN f \cup {path} |->
                     IF p = path THEN NewFile(t) ELSE f[p]]]

\* fopen(path, "a"): NULL for the empty path or when the system refuses;
\* otherwise the file is created if absent and its content kept
fopen_a(f, path, t, ok) ==
    IF ~ok \/ path = ""
    THEN [fp |-> NULL, fs |-> f]
    ELSE IF path \in DOMAIN f
    THEN [fp |-> path, fs |-> f]
    ELSE [fp |-> path, fs |-> (path :> NewFile(t)) @@ f]

\* fprintf(fp, ...) followed by fclose(fp): entry e of n bytes is appended
fprintf_file(f, fp, e, n, t) ==
    [f EXCEPT ![fp] = [data |-> Append(@.data, e),
                       size |-> OffAdd(@.size, n),
                       mtime |-> t]]

---------------------------------------------------------------------------
(* The FILE streams: the pointer of the session and the number of streams  *)
(* the process has open                                                    *)

Handle(ptr, n) == [ptr |-> ptr, open |-> n]

\* _log_file_pointer = fopen(...): the result fp is stored in the pointer,
\* whatever the pointer held before
AssignOpened(h, fp) ==
    Handle(fp, IF fp # NULL THEN h.open + 1 ELSE h.open)

\* Faulty variant of DisposeLogging: the stream is closed, the pointer keeps
\* its value.
DisposeLoggingNoReset(h) ==
    IF h.ptr # NULL THEN Handle(h.ptr, h.open - 1) ELSE h

\* Faulty variant of DisposeLogging: nothing is closed.
DisposeLoggingNoClose(h) == h

\* the body of dispose_logging, lines 443-448
DisposeLogging(h) ==
    IF h.ptr # NULL THEN Handle(NULL, h.open - 1) ELSE h

---------------------------------------------------------------------------
(* Internal functions of logging.c                                         *)

_log_level_to_string(level) ==
    IF level >= LOG_TRACE /\ level <= LOG_FATAL
    THEN _level_strings[level + 1]
    ELSE _level_strings[3]

\* the bytes of the line "[%s] [%s] %s\n" written for LOG_MESSAGE
LineBytes(level) ==
    1 + (LENGTH_TIMESTAMP - 1) + 3 + Len(_log_level_to_string(level)) + 2
      + LOG_MESSAGE_LEN + 1

\* snprintf(old_name, FILE_NAME_LOG_ROTATION, "%s.%d", _log_file_to_use, i)
GenerationName(name, i) == name \o "." \o ToString(i)

\* snprintf(rotated_name, ..., "%s_%s", _base_log_file, date_stamp)
RotatedName(base, t) == base \o "_" \o DateStamp(localtime(t))

\* Faulty variant of _rotate_log_file_dayly: no access() check, the active
\* file is renamed onto the dated name whether or not that name exists.
_rotate_log_file_dayly_unchecked(f, t, rename_ok) ==
    LET rotated_name == RotatedName(_base_log_file, t)
        r == rename(f, _log_file_to_use, rotated_name, rename_ok)
    IN IF r.rc < 0
       THEN [fs |-> f, file |-> _log_file_to_use, renamed |-> FALSE]
       ELSE [fs |-> r.fs, file |-> _base_log_file, renamed |-> TRUE]

\* Faulty variant of _rotate_log_file_dayly: after the rename the active
\* path is the dated name.
_rotate_log_file_dayly_follows(f, t, rename_ok) ==
    LET rotated_name == RotatedName(_base_log_file, t)
        r == rename(f, _log_file_to_use, rotated_name, rename_ok)
    IN IF ~access_ok(f, rotated_name)
       THEN IF r.rc < 0
            THEN [fs |-> f, file |-> _log_file_to_use, renamed |-> FALSE]
            ELSE [fs |-> r.fs, file |-> rotated_name, renamed |-> TRUE]
       ELSE [fs |-> f, file |-> _log_file_to_use, renamed |-> FALSE]

\* Faulty variant of _rotate_log_file_dayly: when the rename fails the active
\* file is removed, to start with a fresh file.
_rotate_log_file_dayly_fresh(f, t, rename_ok) ==
    LET rotated_name == RotatedName(_base_log_file, t)
        r == rename(f, _log_file_to_use, rotated_name, rename_ok)
    IN IF ~access_ok(f, rotated_name)
       THEN IF r.rc < 0
            THEN [fs |-> remove(f, _log_file_to_use).fs,
                  file |-> _log_file_to_use, renamed |-> FALSE]
            ELSE [fs |-> r.fs, file |-> _base_log_file, renamed |-> TRUE]
       ELSE [fs |-> f, file |-> _log_file_to_use, renamed |-> FALSE]

\* _rotate_log_file_dayly: the files and the active path it leaves
_rotate_log_file_dayly(f, t, rename_ok) ==
    LET rotated_name == RotatedName(_base_log_file, t)
        r == rename(f, _log_file_to_use, rotated_name, rename_ok)
    IN IF ~access_ok(f, rotated_name)
       THEN IF r.rc < 0
            THEN [fs |-> f, file |-> _log_file_to_use, renamed |-> FALSE]
            ELSE [fs |-> r.fs, file |-> _base_log_file, renamed |-> TRUE]
       ELSE [fs |-> f, file |-> _log_file_to_use, renamed |-> FALSE]

\* Faulty variant of ShiftUp: the loop counts upwards, from 1 to n - 1.
RECURSIVE ShiftUpAscending(_, _, _)
ShiftUpAscending(f, name, i) ==
    IF i >= 1
    THEN rename(ShiftUpAscending(f, name, i - 1), GenerationName(name, i),
                GenerationName(name, i + 1), TRUE).fs
    ELSE f

\* the loop of _rotate_log_files: for (i = n - 1; i >= 1; --i) rename .i -> .i+1
RECURSIVE ShiftUp(_, _, _)
ShiftUp(f, name, i) ==
    IF i >= 1
    THEN ShiftUp(rename(f, GenerationName(name, i),
                        GenerationName(name, i + 1), TRUE).fs,
                 name, i - 1)
    ELSE f

\* Faulty variant of _rotate_log_files: the generations are not shifted, the
\* active file is renamed onto <active>.1.
_rotate_log_files_no_shift(f) ==
    LET f1 == remove(f, GenerationName(_log_file_to_use,
                                       _nbr_of_keeping_files)).fs
    IN rename(f1, _log_file_to_use, GenerationName(_log_file_to_use, 1),
              TRUE).fs

\* Faulty variant of _rotate_log_files: the loop starts one generation too
\* low (i = _nbr_of_keeping_files - 2).
_rotate_log_files_short(f) ==
    LET f1 == remove(f, GenerationName(_log_file_to_use,
                                       _nbr_of_keeping_files)).fs
        f2 == ShiftUp(f1, _log_file_to_use, _nbr_of_keeping_files - 2)
    IN rename(f2, _log_file_to_use, GenerationName(_log_file_to_use, 1),
              TRUE).fs

\* _rotate_log_files: the files it leaves
_rotate_log_files(f) ==
    LET f1 == remove(f, GenerationName(_log_file_to_use,
                                       _nbr_of_keeping_files)).fs
        f2 == ShiftUp(f1, _log_file_to_use, _nbr_of_keeping_files - 1)
    IN rename(f2, _log_file_to_use, GenerationName(_log_file_to_use, 1),
              TRUE).fs

\* Faulty variant of SizeLimitReached: > instead of >=.
SizeLimitExceeded(size_in_mb) == size_in_mb > _size_for_file_size

\* the comparison of the size rotation, line 300
SizeLimitReached(size_in_mb) == size_in_mb >= _size_for_file_size

\* Faulty variant of SameDay: only the day of the month is compared.
SameDayOfMonth(file_tm, now_tm) == file_tm.tm_mday = now_tm.tm_mday

\* the comparison of the dayly rotation, lines 290-294
SameDay(file_tm, now_tm) ==
    /\ file_tm.tm_year = now_tm.tm_year
    /\ file_tm.tm_mon = now_tm.tm_mon
    /\ file_tm.tm_mday = now_tm.tm_mday

\* Faulty variant of check_for_new_rotation: the date comparison is made in
\* every mode (the test of _log_rotation == DAYLY_ROTATION is missing).
check_for_new_rotation_any_mode(f, filename, t, stat_ok) ==
    IF ~stat_ok \/ filename \notin DOMAIN f
    THEN FALSE
    ELSE \/ ~SameDay(localtime(f[filename].mtime), localtime(t))
         \/ /\ _log_rotation = SIZE_ROTATION
            /\ SizeLimitReached(IntOfOff(f[filename].size))

\* Faulty variant of check_for_new_rotation: a failed stat asks for a
\* rotation.
check_for_new_rotation_on_error(f, filename, t, stat_ok) ==
    IF ~stat_ok \/ filename \notin DOMAIN f
    THEN TRUE
    ELSE \/ _log_rotation = SIZE_ROTATION
            /\ SizeLimitReached(IntOfOff(f[filename].size))
         \/ _log_rotation = DAYLY_ROTATION
            /\ ~SameDay(localtime(f[filename].mtime), localtime(t))

\* check_for_new_rotation(filename), UNIX branch
check_for_new_rotation(f, filename, t, stat_ok) ==
    IF ~stat_ok \/ filename \notin DOMAIN f
    THEN FALSE
    ELSE LET size_in_mb == IntOfOff(f[filename].size)
             file_tm == localtime(f[filename].mtime)
             now_tm == localtime(t)
             dayly == IF _log_rotation = DAYLY_ROTATION
                      THEN ~SameDay(file_tm, now_tm)
                      ELSE FALSE
         IN IF _log_rotation = SIZE_ROTATION /\ SizeLimitReached(size_in_mb)
            THEN TRUE
            ELSE dayly

---------------------------------------------------------------------------
(* Inputs                                                                  *)

\* Logging.file_name (char[LENGTH_FILE_NAME]): none given, the name the tests
\* use, the longest name the array holds with its terminator (31 characters)
\* and an over-length name, which fills the array and leaves no terminator
FileNames ==
    {"", "output.log", "a_log_file_name_of_31_chars.log",
     "a_log_file_name_of_32_chars_.log"}

\* Logging.init_level: a valid level and one outside [LOG_TRACE..LOG_FATAL]
InitLevels == {LOG_ERROR, LOG_FATAL + 1}

\* the level argument of log_message
MsgLevels == {LOG_DEBUG, LOG_ERROR}

\* Logging.file_size_in_mb: below 1, small, and one whose byte count needs
\* more than 31 bits
MbValues == {-1, 0, 1, 2048}

\* Logging.nbr_of_keeping_files
KeepValues == 1 .. MaxKeep

AllConfigs ==
    [file_name : FileNames, init_level : InitLevels,
     on_console_only : BOOLEAN,
     rotation_setting : {NO_ROTATION, DAYLY_ROTATION, SIZE_ROTATION},
     file_size_in_mb : MbValues, nbr_of_keeping_files : KeepValues]

\* The Logging structs init_log is called with: every console-only struct;
\* for file output every rotation setting, size and number of files with the
\* name and level of the tests, and every name and level without rotation.
Configs ==
    {c \in AllConfigs :
        \/ c.on_console_only
        \/ c.file_name = "output.log" /\ c.init_level = LOG_ERROR
        \/ /\ c.rotation_setting = NO_ROTATION
           /\ c.file_size_in_mb = 0
           /\ c.nbr_of_keeping_files = 1}

\* what the system calls of one log_message call answer: TRUE = succeeds
\* (a call may still fail for a reason the file system itself gives)
Faults == [open1 : BOOLEAN, stat : BOOLEAN, rename : BOOLEAN, open2 : BOOLEAN]

NoFault == [open1 |-> TRUE, stat |-> TRUE, rename |-> TRUE, open2 |-> TRUE]

\* the sizes a loop of writes fills the active file to
LoopSizes == {OffOfInt(BytesPerMB - 1), OffOfInt(BytesPerMB)}

---------------------------------------------------------------------------
(* init_log                                                                *)

\* Faulty variant of EffectiveRotation: the size below 1 MB is not noticed.
ConfiguredRotation(log) == log.rotation_setting

\* lines 333-344: the effective rotation mode
EffectiveRotation(log) ==
    IF log.file_size_in_mb < 1 /\ log.rotation_setting = SIZE_ROTATION
    THEN NO_ROTATION
    ELSE log.rotation_setting

\* lines 333-344: the size limit in bytes
EffectiveSize(log) ==
    IF log.file_size_in_mb < 1 /\ log.rotation_setting = SIZE_ROTATION
    THEN _size_for_file_size
    ELSE Mul32(_size_for_file_size, log.file_size_in_mb)

\* Faulty variant of EffectiveKeep: only a number below 1 is replaced.
EffectiveKeepBelowOne(log) ==
    IF log.nbr_of_keeping_files < 1 /\ EffectiveRotation(log) # NO_ROTATION
    THEN 2
    ELSE log.nbr_of_keeping_files

\* lines 346-357: the number of files to keep
EffectiveKeep(log) ==
    IF log.nbr_of_keeping_files < 2 /\ EffectiveRotation(log) # NO_ROTATION
    THEN 2
    ELSE log.nbr_of_keeping_files

\* strlen(log->file_name), line 359: the length of a terminated name; for a
\* name without terminator the scan runs on into the bytes of init_level
\* and on_console_only (false), and stops at the first zero byte there
strlen_file_name(log) ==
    IF Len(log.file_name) < LENGTH_FILE_NAME
    THEN {Len(log.file_name)}
    ELSE LENGTH_FILE_NAME .. (LENGTH_FILE_NAME + 4)

\* Faulty variant of EffectiveName: <= instead of <.
EffectiveNameUpToLength(log, name_length) ==
    IF name_length > 0 /\ name_length <= LENGTH_FILE_NAME
    THEN log.file_name
    ELSE _default_log_name

\* lines 359-371: the file name
EffectiveName(log, name_length) ==
    IF name_length > 0 /\ name_length < LENGTH_FILE_NAME
    THEN log.file_name
    ELSE _default_log_name

\* lines 314-324: the minimal level
EffectiveLevel(log) ==
    IF log.init_level >= LOG_TRACE /\ log.init_level <= LOG_FATAL
    THEN log.init_level
    ELSE LOG_INFO

\* Faulty variant of EffectiveConsole: the flag is not set.
EffectiveConsoleUnset(log) == _on_console_only

\* lines 326, 375-378: the console flag is set, and never cleared
EffectiveConsole(log) ==
    IF log.on_console_only THEN TRUE ELSE _on_console_only

\* the assignments of init_log(log)
InitLogBody(log) ==
    /\ _level_for_logging' = EffectiveLevel(log)
    /\ _on_console_only' = EffectiveConsole(log)
    /\ IF ~log.on_console_only
       THEN /\ _log_rotation' = EffectiveRotation(log)
            /\ _size_for_file_size' = EffectiveSize(log)
            /\ _nbr_of_keeping_files' = EffectiveKeep(log)
            /\ \E name_length \in strlen_file_name(log) :
                 /\ _log_file_to_use' = EffectiveName(log, name_length)
                 /\ _base_log_file' = EffectiveName(log, name_length)
       ELSE UNCHANGED <<_log_rotation, _size_for_file_size,
                        _nbr_of_keeping_files, _log_file_to_use,
                        _base_log_file>>
    /\ cfg' = log
    /\ UNCHANGED <<_log_file_pointer, open_files, fs, now, console, nlines,
                   rotated, last>>

\* the caller's first call (tests: init_log(&log) right after the struct)
init_log ==
    /\ pc = "start"
    /\ pc' = "run"
    /\ \E log \in Configs : InitLogBody(log)

---------------------------------------------------------------------------
(* log_message                                                             *)

\* a line written to a file: its place in the run's accepted writes and its
\* level; loop = TRUE for the lines of a whole loop of writes
Entry(level, loop) ==
    [id |-> nlines + 1, level |-> _log_level_to_string(level), loop |-> loop]

\* Faulty variant of BelowLevel: <= instead of <.
BelowOrAtLevel(level) == level <= _level_for_logging

\* line 382: the message is not handled
BelowLevel(level) == level < _level_for_logging

\* lines 410-418: the rotation of one write; req = the evaluator's answer
Rotate(f, req, ft) ==
    IF req
    THEN IF _log_rotation = DAYLY_ROTATION
         THEN _rotate_log_file_dayly(f, now, ft.rename)
         ELSE [fs |-> _rotate_log_files(f), file |-> _log_file_to_use,
               renamed |-> TRUE]
    ELSE [fs |-> f, file |-> _log_file_to_use, renamed |-> FALSE]

\* Faulty variant of UnableToWrite: the rotation branch runs all the same.
UnableToWriteRotating(h, ft) ==
    LET req == /\ _log_rotation # NO_ROTATION
               /\ check_for_new_rotation(fs, _log_file_to_use, now, ft.stat)
        rot == Rotate(fs, req, ft)
    IN [fs |-> rot.fs, file |-> rot.file, opened |-> FALSE,
        checked |-> FALSE, required |-> FALSE, renamed |-> FALSE,
        appended |-> FALSE, probed |-> <<>>, handle |-> h,
        peak |-> h.open, denied |-> ~ft.open1, probe_failed |-> FALSE]

\* lines 400-403: the file cannot be opened (perror), the message is dropped
UnableToWrite(h, ft) ==
    [fs |-> fs, file |-> _log_file_to_use, opened |-> FALSE,
     checked |-> FALSE, required |-> FALSE, renamed |-> FALSE,
     appended |-> FALSE, probed |-> <<>>, handle |-> h,
     peak |-> h.open, denied |-> ~ft.open1, probe_failed |-> FALSE]

\* lines 398-430: what a handled message does to the files
WriteToFile(level, ft) ==
    LET o1 == fopen_a(fs, _log_file_to_use, now, ft.open1)
        h1 == AssignOpened(Handle(_log_file_pointer, open_files), o1.fp)
        rotating == _log_rotation # NO_ROTATION
        h2 == IF rotating THEN DisposeLogging(h1) ELSE h1
        req == rotating
               /\ check_for_new_rotation(o1.fs, _log_file_to_use, now, ft.stat)
        rot == Rotate(o1.fs, req, ft)
        o2 == IF rotating THEN fopen_a(rot.fs, rot.file, now, ft.open2) ELSE o1
        h3 == IF rotating THEN AssignOpened(h2, o2.fp) ELSE h2
        e == Entry(level, FALSE)
    IN IF o1.fp = NULL
       THEN UnableToWrite(h1, ft)
       ELSE [fs |-> IF o2.fp # NULL
                    THEN fprintf_file(o2.fs, o2.fp, e, LineBytes(level), now)
                    ELSE o2.fs,
             file |-> rot.file, opened |-> TRUE, checked |-> rotating,
             required |-> req, renamed |-> rot.renamed,
             appended |-> o2.fp # NULL,
             probed |-> IF _log_file_to_use \in DOMAIN o1.fs
                        THEN o1.fs[_log_file_to_use].data ELSE <<>>,
             handle |-> DisposeLogging(h3),
             peak |-> IF h3.open > h1.open THEN h3.open ELSE h1.open,
             denied |-> rotating /\ ~ft.open2,
             probe_failed |-> rotating /\ ~ft.stat]

\* what a call did, for the history variable last (denied: the system
\* refused an fopen of the call; probe_failed: stat failed)
Did(level, kind, r) ==
    [level |-> level, kind |-> kind, opened |-> r.opened,
     checked |-> r.checked, required |-> r.required, renamed |-> r.renamed,
     appended |-> r.appended, peak |-> r.peak, denied |-> r.denied,
     probe_failed |-> r.probe_failed]

\* a call that touches no file: the streams stay as they are
Nothing ==
    [opened |-> FALSE, checked |-> FALSE, required |-> FALSE,
     renamed |-> FALSE, appended |-> FALSE, peak |-> open_files,
     denied |-> FALSE, probe_failed |-> FALSE]

\* log_message(level, LOG_MESSAGE) with the system calls answering ft
LogMessageBody(level, ft) ==
    IF BelowLevel(level)
    THEN /\ last' = Did(level, "ignored", Nothing)
         /\ UNCHANGED <<session, open_files, fs, console, nlines, rotated>>
    ELSE IF ~_on_console_only
    THEN LET r == WriteToFile(level, ft)
         IN /\ nlines < MaxLines
            /\ fs' = r.fs
            /\ _log_file_to_use' = r.file
            /\ _log_file_pointer' = r.handle.ptr
            /\ open_files' = r.handle.open
            /\ nlines' = IF r.appended THEN nlines + 1 ELSE nlines
            /\ rotated' = IF r.required /\ _log_rotation = SIZE_ROTATION
                          THEN Append(rotated, r.probed) ELSE rotated
            /\ last' = Did(level, "file", r)
            /\ UNCHANGED <<_level_for_logging, _on_console_only,
                           _log_rotation, _size_for_file_size,
                           _nbr_of_keeping_files, _base_log_file, console>>
    ELSE /\ console < MaxConsole
         /\ console' = console + 1
         /\ last' = Did(level, "console", Nothing)
         /\ UNCHANGED <<session, open_files, fs, nlines, rotated>>

log_message ==
    /\ pc = "run"
    /\ \E level \in MsgLevels : LogMessageBody(level, NoFault)
    /\ UNCHANGED <<pc, now, cfg>>

\* The loop of the tests (for (i = 0; i < 100000; i++) log_message(...)):
\* many handled writes in a row, none of which rotates, taken as one step.
\* It fills the active file to the size target; the evaluator is asked
\* before the first and before the last write of the loop.
log_message_loop ==
    /\ pc = "run"
    /\ ~_on_console_only
    /\ nlines < MaxLines
    /\ \E level \in MsgLevels, target \in LoopSizes :
         LET o1 == fopen_a(fs, _log_file_to_use, now, TRUE)
             n == LineBytes(level)
             rotating == _log_rotation # NO_ROTATION
             before_last ==
                 [o1.fs EXCEPT ![_log_file_to_use] =
                     [@ EXCEPT !.size = OffOfInt(IntOfOff(target) - n),
                               !.mtime = now]]
         IN /\ ~BelowLevel(level)
            /\ o1.fp # NULL
            /\ OffLess(OffAdd(o1.fs[_log_file_to_use].size, n), target)
            /\ rotating =>
                 /\ ~check_for_new_rotation(o1.fs, _log_file_to_use, now, TRUE)
                 /\ ~check_for_new_rotation(before_last, _log_file_to_use,
                                            now, TRUE)
            /\ fs' = [o1.fs EXCEPT ![_log_file_to_use] =
                        [data |-> Append(@.data, Entry(level, TRUE)),
                         size |-> target, mtime |-> now]]
            /\ last' = Did(level, "loop",
                           [opened |-> TRUE, checked |-> rotating,
                            required |-> FALSE, renamed |-> FALSE,
                            appended |-> TRUE, peak |-> open_files + 1,
                            denied |-> FALSE, probe_failed |-> FALSE])
    /\ nlines' = nlines + 1
    /\ UNCHANGED <<pc, session, open_files, now, console, cfg, rotated>>

---------------------------------------------------------------------------
(* dispose_logging                                                         *)

dispose_logging ==
    /\ pc = "run"
    /\ _log_file_pointer' =
          DisposeLogging(Handle(_log_file_pointer, open_files)).ptr
    /\ open_files' = DisposeLogging(Handle(_log_file_pointer, open_files)).open
    /\ UNCHANGED <<pc, _level_for_logging, _on_console_only, _log_rotation,
                   _size_for_file_size, _nbr_of_keeping_files,
                   _log_file_to_use, _base_log_file, fs, now, console, cfg,
                   nlines, rotated, last>>

---------------------------------------------------------------------------
(* The environment: the wall clock is set or moves on                      *)

clock_changes ==
    /\ \E t \in Times \ {now} : now' = t
    /\ UNCHANGED <<pc, session, open_files, fs, console, cfg, nlines, rotated,
                   last>>

---------------------------------------------------------------------------
(* The program                                                             *)

\* the static initializers of logging.c, an empty directory, and a caller
\* that has not called init_log yet
Init ==
    /\ pc = "start"
    /\ _level_for_logging = LOG_INFO
    /\ _on_console_only = FALSE
    /\ _log_rotation = NO_ROTATION
    /\ _size_for_file_size = BytesPerMB
    /\ _nbr_of_keeping_files = 1
    /\ _log_file_to_use = ""
    /\ _base_log_file = ""
    /\ _log_file_pointer = NULL
    /\ open_files = 0
    /\ fs = <<>>
    /\ now = T0
    /\ console = 0
    /\ cfg = [file_name |-> "", init_level |-> LOG_TRACE,
              on_console_only |-> FALSE, rotation_setting |-> NO_ROTATION,
              file_size_in_mb |-> 0, nbr_of_keeping_files |-> 0]
    /\ nlines = 0
    /\ rotated = <<>>
    /\ last = [level |-> LOG_TRACE, kind |-> "none", opened |-> FALSE,
               checked |-> FALSE, required |-> FALSE, renamed |-> FALSE,
               appended |-> FALSE, peak |-> 0, denied |-> FALSE,
               probe_failed |-> FALSE]

Next ==
    \/ init_log
    \/ log_message
    \/ log_message_loop
    \/ dispose_logging
    \/ clock_changes

Spec == Init /\ [][Next]_vars

---------------------------------------------------------------------------
(* The library under any caller: the three public functions called in any  *)
(* order and any number of times (log_message and dispose_logging also     *)
(* before init_log, init_log also again), with system calls that may fail  *)

\* the Logging structs of this caller: the name and level of the tests, 1 MB
\* and 2 files, every rotation setting, to a file or to the console
ApiConfigs ==
    {c \in Configs :
        /\ c.file_name = "output.log" /\ c.init_level = LOG_ERROR
        /\ c.file_size_in_mb = 1 /\ c.nbr_of_keeping_files = 2}

\* the answers of the system calls of one log_message call that make a
\* difference: a call that is not reached does not fail
ApiFaults ==
    {ft \in Faults :
        /\ ~ft.open1 => (ft.stat /\ ft.rename /\ ft.open2)
        /\ ~ft.stat => ft.rename}

\* init_log(&log), the first time or again
init_log_any_time ==
    /\ pc' = "run"
    /\ \E log \in ApiConfigs : InitLogBody(log)

\* log_message(level, LOG_MESSAGE); each system call succeeds or fails
log_message_any_time ==
    /\ nlines < MaxApiLines
    /\ \E level \in MsgLevels, ft \in ApiFaults : LogMessageBody(level, ft)
    /\ UNCHANGED <<pc, now, cfg>>

\* dispose_logging(); the call is noted in the history
dispose_logging_any_time ==
    /\ _log_file_pointer' =
          DisposeLogging(Handle(_log_file_pointer, open_files)).ptr
    /\ open_files' = DisposeLogging(Handle(_log_file_pointer, open_files)).open
    /\ last' = [last EXCEPT !.kind = "dispose"]
    /\ UNCHANGED <<pc, _level_for_logging, _on_console_only, _log_rotation,
                   _size_for_file_size, _nbr_of_keeping_files,
                   _log_file_to_use, _base_log_file, fs, now, console, cfg,
                   nlines, rotated>>

\* the environment of this caller: midnight passes once
day_passes ==
    /\ now = T0
    /\ now' = T0 + HoursPerDay
    /\ UNCHANGED <<pc, session, open_files, fs, console, cfg, nlines, rotated,
                   last>>

NextApi ==
    \/ init_log_any_time
    \/ log_message_any_time
    \/ log_message_loop
    \/ dispose_logging_any_time
    \/ day_passes

SpecApi == Init /\ [][NextApi]_vars

---------------------------------------------------------------------------
(* The caller of the tests with a rename that may fail, under a clock that *)
(* is set freely                                                           *)

\* the system calls of one log_message call: only rename may fail
RenameFaults == {ft \in Faults : ft.open1 /\ ft.stat /\ ft.open2}

\* init_log(&log), once, with a struct of ApiConfigs
init_log_once ==
    /\ pc = "start"
    /\ pc' = "run"
    /\ \E log \in ApiConfigs : InitLogBody(log)

\* log_message(level, LOG_MESSAGE); the rename of a rotation may fail
log_message_rename_may_fail ==
    /\ pc = "run"
    /\ \E level \in MsgLevels, ft \in RenameFaults : LogMessageBody(level, ft)
    /\ UNCHANGED <<pc, now, cfg>>

NextRename ==
    \/ init_log_once
    \/ log_message_rename_may_fail
    \/ log_message_loop
    \/ clock_changes

SpecRename == Init /\ [][NextRename]_vars

---------------------------------------------------------------------------
(* A caller that calls init_log again and again                            *)

\* init_log(&log) in a process that has called init_log before
init_log_again ==
    /\ pc = "run"
    /\ pc' = "run"
    /\ \E log \in Configs : InitLogBody(log)

NextInit ==
    \/ init_log
    \/ init_log_again

SpecInit == Init /\ [][NextInit]_vars

---------------------------------------------------------------------------
(* Vocabulary of the properties                                            *)

\* the backup (non-active) files on disk
Backups == DOMAIN fs \ {_log_file_to_use}

\* init_log has been called and file output is enabled
FileOutput == pc = "run" /\ ~_on_console_only

\* a step that is one call of log_message (a call that changes nothing at
\* all is a stuttering step)
CallStep ==
    /\ pc = "run" /\ pc' = "run"
    /\ now' = now
    /\ last'.kind # "loop"
    /\ vars' # vars

\* a step that is one call of log_message which wrote its line to a file
WriteStep == CallStep /\ last'.kind = "file" /\ nlines' = nlines + 1

\* the size the metadata probe of a write finds: the active file is created
\* empty by the first fopen when it does not exist
ProbedSize ==
    IF _log_file_to_use \in DOMAIN fs
    THEN fs[_log_file_to_use].size
    ELSE Off(0, 0)

\* the calendar day the metadata probe of a write finds
ProbedDay ==
    IF _log_file_to_use \in DOMAIN fs
    THEN CivilFromDays(fs[_log_file_to_use].mtime \div HoursPerDay)
    ELSE CivilFromDays(now \div HoursPerDay)

Today == CivilFromDays(now \div HoursPerDay)

\* the line a call of log_message appends in this state
NextLine(level) ==
    [id |-> nlines + 1, level |-> _level_strings[level + 1], loop |-> FALSE]

---------------------------------------------------------------------------
(* Properties                                                              *)

\* C1: under SIZE_ROTATION with a configured number N >= 2 of files to keep,
\* once _rotate_log_files has run M >= N times (from a directory without
\* backups) exactly the N backups <active>.1 .. <active>.N exist, and
\* <active>.k holds the content rotated k rotations ago (.1 the latest).
TheoremC1 ==
    LET N == cfg.nbr_of_keeping_files
        M == Len(rotated)
    IN (FileOutput /\ _log_rotation = SIZE_ROTATION /\ N >= 2 /\ M >= N) =>
         /\ Backups = {GenerationName(_log_file_to_use, k) : k \in 1 .. N}
         /\ \A k \in 1 .. N :
              fs[GenerationName(_log_file_to_use, k)].data = rotated[M - k + 1]

\* C1 happens: a size limit of 1 MB, and as many rotations as files to keep
WitnessC1 ==
    /\ FileOutput /\ _log_rotation = SIZE_ROTATION
    /\ cfg.file_size_in_mb = 1
    /\ cfg.nbr_of_keeping_files >= 2
    /\ Len(rotated) >= cfg.nbr_of_keeping_files

\* C2: in every enabled rotation mode (DAYLY_ROTATION as well as
\* SIZE_ROTATION) the number of backup files on disk is at most the number
\* of files to keep, whatever the writes, rotations and days.
ClaimC2 ==
    (FileOutput /\ _log_rotation # NO_ROTATION) =>
        Cardinality(Backups) <= _nbr_of_keeping_files

\* C3: under SIZE_ROTATION with a configured file_size_in_mb >= 1, the
\* rotation check of a write answers true if and only if the size of the
\* active file in bytes is >= file_size_in_mb * 1,048,576.
ClaimC3 ==
    [][(WriteStep /\ _log_rotation = SIZE_ROTATION
           /\ cfg.file_size_in_mb >= 1) =>
         (last'.required <=>
            ~OffLess(ProbedSize, Off(cfg.file_size_in_mb, 0)))]_vars

\* C4: a dayly rotation that finds the dated name <base>_YYYY_MM_DD of today
\* on disk renames nothing and overwrites nothing: every file keeps its name
\* and content, and the line is appended to the active file left in place.
TheoremC4 ==
    [][(WriteStep /\ _log_rotation = DAYLY_ROTATION /\ last'.required
           /\ RotatedName(_base_log_file, now) \in DOMAIN fs) =>
         /\ ~last'.renamed
         /\ DOMAIN fs' = DOMAIN fs
         /\ \A p \in Backups : fs'[p] = fs[p]
         /\ _log_file_to_use' = _log_file_to_use
         /\ fs'[_log_file_to_use].data =
               Append(fs[_log_file_to_use].data, NextLine(last'.level))]_vars

\* C4 happens: a dayly rotation was due and nothing was renamed
WitnessC4 ==
    /\ FileOutput /\ _log_rotation = DAYLY_ROTATION
    /\ last.kind = "file" /\ last.required /\ ~last.renamed
    /\ RotatedName(_base_log_file, now) \in DOMAIN fs
    /\ Len(fs[_log_file_to_use].data) >= 2

\* C5: under DAYLY_ROTATION a write triggers the rotation if and only if the
\* calendar day (year, month, day) of the active file's time stamp differs
\* from the calendar day of the current time; the time of day plays no role.
TheoremC5 ==
    [][(WriteStep /\ _log_rotation = DAYLY_ROTATION) =>
         (last'.required <=> ProbedDay # Today)]_vars

\* C5 happens: a write on another day rotated the file
WitnessC5 ==
    /\ FileOutput /\ _log_rotation = DAYLY_ROTATION
    /\ last.kind = "file" /\ last.required /\ last.renamed
    /\ Cardinality(Backups) >= 2

\* C6: with SIZE_ROTATION, 1 MB and 2 files to keep, a write that finds the
\* active file at or above 1,048,576 bytes renames it to <name>.1 and then
\* appends to a fresh active file: afterwards the active file holds exactly
\* the new line and <name>.1 holds everything written before.
TheoremC6 ==
    [][(WriteStep /\ cfg.rotation_setting = SIZE_ROTATION
           /\ cfg.file_size_in_mb = 1 /\ cfg.nbr_of_keeping_files = 2
           /\ ~OffLess(ProbedSize, Off(1, 0))) =>
         /\ last'.required /\ last'.renamed
         /\ fs'[_log_file_to_use].data = <<NextLine(last'.level)>>
         /\ GenerationName(_log_file_to_use, 1) \in DOMAIN fs'
         /\ fs'[GenerationName(_log_file_to_use, 1)].data =
               fs[_log_file_to_use].data]_vars

\* C6 happens: the file was filled to the limit and the next write rotated
WitnessC6 ==
    /\ FileOutput /\ cfg.rotation_setting = SIZE_ROTATION
    /\ cfg.file_size_in_mb = 1 /\ cfg.nbr_of_keeping_files = 2
    /\ last.kind = "file" /\ last.required
    /\ Len(fs[_log_file_to_use].data) = 1
    /\ GenerationName(_log_file_to_use, 1) \in DOMAIN fs

\* C7: with NO_ROTATION and file output, after k accepted writes (and any
\* number of ignored ones) the active file holds exactly the k lines in the
\* order written, and there is no backup file.
TheoremC7 ==
    (FileOutput /\ _log_rotation = NO_ROTATION) =>
        /\ Backups = {}
        /\ nlines = 0 => DOMAIN fs = {}
        /\ nlines > 0 =>
             /\ _log_file_to_use \in DOMAIN fs
             /\ Len(fs[_log_file_to_use].data) = nlines
             /\ \A i \in 1 .. nlines : fs[_log_file_to_use].data[i].id = i

\* C7 happens: three lines written, then a message below the level
WitnessC7 ==
    /\ FileOutput /\ _log_rotation = NO_ROTATION
    /\ nlines = 3 /\ last.kind = "ignored"

\* C8: a log_message call with a level below the minimal level changes
\* nothing (no file opened, created, written, renamed or deleted, no
\* rotation check, session state unchanged); a call with a level of at least
\* the minimal level is handled.
TheoremC8 ==
    [][CallStep =>
         IF last'.level < _level_for_logging
         THEN /\ UNCHANGED <<session, open_files, fs, console, nlines,
                             rotated>>
              /\ last'.kind = "ignored"
              /\ ~last'.opened /\ ~last'.checked /\ ~last'.required
              /\ ~last'.renamed /\ ~last'.appended
         ELSE \/ /\ last'.kind = "file" /\ last'.appended
                 /\ nlines' = nlines + 1
                 /\ _log_file_to_use' \in DOMAIN fs'
              \/ /\ last'.kind = "console"
                 /\ console' = console + 1]_vars

\* C8 happens: a message below the level arrived after a line was written
WitnessC8 ==
    /\ FileOutput /\ nlines >= 1
    /\ last.kind = "ignored" /\ last.level < _level_for_logging

\* C9: one trigger per session.  With NO_ROTATION no write rotates; with
\* DAYLY_ROTATION a file at or above the session's size threshold whose day
\* is today does not rotate; with SIZE_ROTATION a file below the session's
\* size threshold whose day is not today does not rotate.
TheoremC9 ==
    [][WriteStep =>
         /\ _log_rotation = NO_ROTATION =>
               ~last'.required /\ ~last'.renamed /\ Backups' = Backups
         /\ (_log_rotation = DAYLY_ROTATION /\ ProbedDay = Today
               /\ IntOfOff(ProbedSize) >= _size_for_file_size) =>
               ~last'.required /\ Backups' = Backups
         /\ (_log_rotation = SIZE_ROTATION /\ ProbedDay # Today
               /\ IntOfOff(ProbedSize) < _size_for_file_size) =>
               ~last'.required /\ Backups' = Backups]_vars

\* C9 happens: under DAYLY_ROTATION a line was appended, without rotation,
\* to a file that already was at the size threshold
WitnessC9 ==
    /\ FileOutput /\ _log_rotation = DAYLY_ROTATION
    /\ _size_for_file_size > 0
    /\ last.kind = "file" /\ last.checked /\ ~last.required
    /\ IntOfOff(fs[_log_file_to_use].size) - LineBytes(last.level)
          >= _size_for_file_size

\* C10: after init_log with SIZE_ROTATION and file_size_in_mb < 1 the
\* effective mode is NO_ROTATION and no write rotates.
TheoremC10 ==
    (pc = "run" /\ ~cfg.on_console_only
        /\ cfg.rotation_setting = SIZE_ROTATION /\ cfg.file_size_in_mb < 1) =>
        /\ _log_rotation = NO_ROTATION
        /\ rotated = <<>>
        /\ ~last.required /\ ~last.renamed
        /\ Backups = {}

\* C10 happens: such a session wrote a line to a file of 1 MB or more
WitnessC10 ==
    /\ pc = "run" /\ ~cfg.on_console_only
    /\ cfg.rotation_setting = SIZE_ROTATION /\ cfg.file_size_in_mb < 1
    /\ last.kind = "file" /\ last.appended
    /\ ~OffLess(fs[_log_file_to_use].size,
                OffAdd(Off(1, 0), LineBytes(last.level)))

\* C11: with file output and an effective rotation mode other than
\* NO_ROTATION the number of files to keep is at least 2 in every state after
\* init_log (also after writes and rotations): a configured number below 2 is
\* replaced by exactly 2, a number of 2 or more is kept as configured.
TheoremC11 ==
    (FileOutput /\ _log_rotation # NO_ROTATION) =>
        /\ _nbr_of_keeping_files >= 2
        /\ _nbr_of_keeping_files =
              IF cfg.nbr_of_keeping_files < 2
              THEN 2 ELSE cfg.nbr_of_keeping_files

\* C11 happens: 1 file to keep was configured with DAYLY_ROTATION (the
\* setting of the dayly rotation test) and a write has rotated since
WitnessC11 ==
    /\ FileOutput /\ _log_rotation = DAYLY_ROTATION
    /\ cfg.nbr_of_keeping_files = 1
    /\ _nbr_of_keeping_files = 2
    /\ last.kind = "file" /\ last.renamed

\* C12: while the effective mode is SIZE_ROTATION (a file_size_in_mb >= 1
\* was configured) the stored size threshold is at least 1,048,576 bytes and
\* is exactly file_size_in_mb * 1,048,576.
ClaimC12 ==
    (FileOutput /\ _log_rotation = SIZE_ROTATION
        /\ cfg.file_size_in_mb >= 1) =>
        /\ _size_for_file_size >= BytesPerMB
        /\ _size_for_file_size % BytesPerMB = 0
        /\ _size_for_file_size \div BytesPerMB = cfg.file_size_in_mb

\* C18: after init_log with on_console_only set, whatever file_name,
\* rotation_setting, file_size_in_mb and nbr_of_keeping_files the struct
\* holds, no log_message call opens, creates, writes, renames or deletes a
\* file: the directory stays empty and every handled line goes to stdout.
TheoremC18 ==
    (pc = "run" /\ cfg.on_console_only) =>
        /\ _on_console_only
        /\ DOMAIN fs = {}
        /\ nlines = 0 /\ rotated = <<>>
        /\ last.kind \in {"none", "ignored", "console"}
        /\ ~last.opened /\ ~last.checked /\ ~last.required
        /\ ~last.renamed /\ ~last.appended
        /\ _log_file_pointer = NULL /\ open_files = 0

\* C18 happens: a console-only session configured with a file name,
\* SIZE_ROTATION, 1 MB and 3 files has printed two lines
WitnessC18 ==
    /\ pc = "run" /\ cfg.on_console_only
    /\ cfg.file_name = "output.log"
    /\ cfg.rotation_setting = SIZE_ROTATION
    /\ cfg.file_size_in_mb = 1 /\ cfg.nbr_of_keeping_files = 3
    /\ last.kind = "console" /\ console >= 2

\* C19: after init_log with file output, the active file name is the
\* configured file_name if its length is 1..31, and "app.log" if the
\* configured name is empty or over-length; the base file name equals the
\* active file name.
TheoremC19 ==
    (pc = "run" /\ ~cfg.on_console_only) =>
        /\ _log_file_to_use =
              IF Len(cfg.file_name) >= 1 /\ Len(cfg.file_name) <= 31
              THEN cfg.file_name ELSE "app.log"
        /\ _base_log_file = _log_file_to_use

\* C19 happens: an over-length name was configured and a line was written
\* to app.log
WitnessC19 ==
    /\ pc = "run" /\ ~cfg.on_console_only
    /\ Len(cfg.file_name) > 31
    /\ DOMAIN fs = {"app.log"}
    /\ Len(fs["app.log"].data) >= 1

\* C20: one size rotation with N files to keep moves every generation up
\* by one without clobbering.  For every i in 1..N-1 the file that was
\* <active>.i is <active>.(i+1) afterwards (and <active>.(i+1) is absent if
\* <active>.i was), the lines of the active file are in <active>.1, the
\* active file holds only the new line, and nothing but the old <active>.N
\* is lost: every other file is untouched.
TheoremC20 ==
    [][(WriteStep /\ _log_rotation = SIZE_ROTATION /\ last'.required) =>
         LET N == _nbr_of_keeping_files
             A == _log_file_to_use
             Gens == {GenerationName(A, k) : k \in 1 .. N}
         IN /\ \A i \in 1 .. (N - 1) :
                 IF GenerationName(A, i) \in DOMAIN fs
                 THEN /\ GenerationName(A, i + 1) \in DOMAIN fs'
                      /\ fs'[GenerationName(A, i + 1)] =
                            fs[GenerationName(A, i)]
                 ELSE GenerationName(A, i + 1) \notin DOMAIN fs'
            /\ GenerationName(A, 1) \in DOMAIN fs'
            /\ fs'[GenerationName(A, 1)].data =
                  (IF A \in DOMAIN fs THEN fs[A].data ELSE <<>>)
            /\ _log_file_to_use' = A
            /\ fs'[A].data = <<NextLine(last'.level)>>
            /\ DOMAIN fs' \ (Gens \cup {A}) = DOMAIN fs \ (Gens \cup {A})
            /\ \A p \in DOMAIN fs \ (Gens \cup {A}) : fs'[p] = fs[p]]_vars

\* C20 happens: with 3 files to keep a size rotation found all three
\* generations on disk, discarded the oldest and shifted the others
WitnessC20 ==
    /\ FileOutput /\ _log_rotation = SIZE_ROTATION
    /\ _nbr_of_keeping_files = 3
    /\ last.kind = "file" /\ last.required
    /\ Len(rotated) = 4
    /\ \A k \in 1 .. 3 :
          /\ GenerationName(_log_file_to_use, k) \in DOMAIN fs
          /\ fs[GenerationName(_log_file_to_use, k)].data = rotated[5 - k]

\* C21: under SIZE_ROTATION with N files to keep, starting without
\* backups, after M < N rotations exactly the M backups <active>.1 ..
\* <active>.M exist, without gaps, <active>.k holding the content rotated k
\* rotations ago: the remove and the renames whose file is absent create
\* nothing and stop nothing.
TheoremC21 ==
    LET N == _nbr_of_keeping_files
        M == Len(rotated)
    IN (FileOutput /\ _log_rotation = SIZE_ROTATION /\ M < N) =>
         /\ Backups = {GenerationName(_log_file_to_use, k) : k \in 1 .. M}
         /\ \A k \in 1 .. M :
              fs[GenerationName(_log_file_to_use, k)].data = rotated[M - k + 1]
         /\ M >= 1 =>
              /\ last.kind \in {"file", "loop", "ignored"}
              /\ _log_file_to_use \in DOMAIN fs

\* C21 happens: 3 files to keep, 1 MB, and a first rotation has taken place:
\* <active>.1 exists, <active>.2 and <active>.3 do not
WitnessC21 ==
    /\ FileOutput /\ _log_rotation = SIZE_ROTATION
    /\ cfg.file_size_in_mb = 1 /\ _nbr_of_keeping_files = 3
    /\ Len(rotated) = 1
    /\ last.kind = "file" /\ last.required /\ last.appended
    /\ Backups = {GenerationName(_log_file_to_use, 1)}

\* the places in the run's accepted writes of the lines of a file content
IdsOf(data) == {data[i].id : i \in 1 .. Len(data)}

\* the lines a size rotation has discarded: what was rotated N and more
\* rotations ago has left <active>.N
Discarded ==
    UNION {IdsOf(rotated[j]) :
             j \in 1 .. (Len(rotated) - _nbr_of_keeping_files)}

\* C23: when no system call fails, rotation neither loses nor duplicates an
\* accepted line: every line written so far is in exactly one file (the
\* active file or a backup), once, the lines of a file are in the order
\* written, and the only lines missing are those that were in <active>.N
\* when a size rotation removed it.
TheoremC23 ==
    FileOutput =>
        /\ \A p \in DOMAIN fs :
              \A i, j \in 1 .. Len(fs[p].data) :
                 i < j => fs[p].data[i].id < fs[p].data[j].id
        /\ \A p, q \in DOMAIN fs :
              p # q => IdsOf(fs[p].data) \cap IdsOf(fs[q].data) = {}
        /\ UNION {IdsOf(fs[p].data) : p \in DOMAIN fs} =
              (1 .. nlines) \ Discarded

\* C23 happens: four lines were written, rotations have spread them over
\* three files, and none is missing
WitnessC23 ==
    /\ FileOutput /\ _log_rotation # NO_ROTATION
    /\ nlines = 4 /\ Discarded = {}
    /\ Cardinality({p \in DOMAIN fs : Len(fs[p].data) >= 1}) = 3

\* C22: in every state after init_log with file output the active path is
\* the base file name given at initialization: no write, no dayly rotation
\* (done, skipped because the dated name exists, or failed in rename) and no
\* size rotation leaves it at the name of a backup.
TheoremC22 ==
    (pc = "run" /\ ~cfg.on_console_only) =>
        /\ _base_log_file = cfg.file_name
        /\ _log_file_to_use = _base_log_file
        /\ _log_file_to_use \notin
              {RotatedName(_base_log_file, t) : t \in Times}
                \cup {GenerationName(_base_log_file, k) :
                         k \in 1 .. _nbr_of_keeping_files}

\* C22 happens: after dayly rotations that renamed the file, a rotation was
\* skipped because the dated name of the day was on disk
WitnessC22 ==
    /\ pc = "run" /\ ~cfg.on_console_only /\ _log_rotation = DAYLY_ROTATION
    /\ last.kind = "file" /\ last.required /\ ~last.renamed
    /\ RotatedName(_base_log_file, now) \in DOMAIN fs
    /\ Cardinality(DOMAIN fs) >= 3
    /\ fs[_log_file_to_use].mtime = now

---------------------------------------------------------------------------
(* Properties of the library under any caller (SpecApi)                    *)

\* a step that is one call of log_message: init_log changes pc, the struct
\* or a static other than the active path, dispose_logging and the loop are
\* noted in last, and the clock stands still
MessageStep ==
    /\ UNCHANGED <<pc, now, cfg, _level_for_logging, _on_console_only,
                   _log_rotation, _size_for_file_size, _nbr_of_keeping_files,
                   _base_log_file>>
    /\ last'.kind \in {"ignored", "file", "console"}
    /\ vars' # vars

\* a call of log_message that was handled with file output
FileStep == MessageStep /\ last'.kind = "file"

\* the lines of the active file before a call (none if it does not exist)
ActiveData ==
    IF _log_file_to_use \in DOMAIN fs THEN fs[_log_file_to_use].data ELSE <<>>

\* every file but the active one is as it was
OthersUntouched ==
    /\ DOMAIN fs' \ {_log_file_to_use} = DOMAIN fs \ {_log_file_to_use}
    /\ \A p \in DOMAIN fs \ {_log_file_to_use} : fs'[p] = fs[p]

\* the active file holds what it held, and the line of the call if the call
\* appended it
ActiveKept ==
    /\ _log_file_to_use' = _log_file_to_use
    /\ _log_file_to_use \in DOMAIN fs'
    /\ fs'[_log_file_to_use].data =
          IF last'.appended
          THEN Append(ActiveData, NextLine(last'.level))
          ELSE ActiveData

\* C13: when the rename of a dayly rotation fails (the rotation was due, the
\* dated name was free, nothing was renamed), the active path is unchanged,
\* the active file keeps its place and content, no dated file appears, and
\* the line of the call is appended to it unless the system refuses to open
\* it; every later line is appended to the file of the base name, too.
TheoremC13 ==
    [][FileStep =>
         /\ (/\ _log_rotation = DAYLY_ROTATION
             /\ last'.required /\ ~last'.renamed
             /\ RotatedName(_base_log_file, now) \notin DOMAIN fs) =>
               /\ ActiveKept
               /\ OthersUntouched
               /\ RotatedName(_base_log_file, now) \notin DOMAIN fs'
               /\ ~last'.denied => last'.appended
               /\ UNCHANGED <<session, open_files>>
         /\ (_log_rotation = DAYLY_ROTATION /\ last'.appended) =>
               /\ _log_file_to_use' = _base_log_file
               /\ fs'[_base_log_file].data[Len(fs'[_base_log_file].data)] =
                     NextLine(last'.level)]_vars

\* C13 happens: the rename of a due dayly rotation failed, the line went to
\* the file left in place, behind the lines of the day before
WitnessC13 ==
    /\ pc = "run" /\ ~_on_console_only /\ _log_rotation = DAYLY_ROTATION
    /\ last.kind = "file" /\ last.required /\ ~last.renamed /\ last.appended
    /\ RotatedName(_base_log_file, now) \notin DOMAIN fs
    /\ Len(fs[_log_file_to_use].data) >= 2

\* C14: when stat fails in the rotation check of a write, in DAYLY_ROTATION
\* as in SIZE_ROTATION, no rotation takes place: no file is renamed or
\* deleted, the session state is unchanged, and the line is appended to the
\* active file unless the system refuses to open it again.
TheoremC14 ==
    [][(FileStep /\ last'.probe_failed) =>
         /\ _log_rotation \in {DAYLY_ROTATION, SIZE_ROTATION}
         /\ ~last'.required /\ ~last'.renamed
         /\ ActiveKept
         /\ OthersUntouched
         /\ rotated' = rotated
         /\ UNCHANGED <<session, open_files>>
         /\ ~last'.denied => last'.appended]_vars

\* C14 happens: under SIZE_ROTATION stat failed for a file that had reached
\* the size threshold, and the line was appended to that file
WitnessC14 ==
    /\ pc = "run" /\ ~_on_console_only /\ _log_rotation = SIZE_ROTATION
    /\ last.kind = "file" /\ last.probe_failed /\ last.appended
    /\ _size_for_file_size >= BytesPerMB
    /\ IntOfOff(fs[_log_file_to_use].size) - LineBytes(last.level)
          >= _size_for_file_size

\* C15: when the first fopen of a handled write fails, the message is
\* dropped and nothing else happens: no rotation check, no file created,
\* renamed, deleted or written, session state unchanged.  A write for which
\* the system opens the file appends its line as usual.
TheoremC15 ==
    [][FileStep =>
         /\ ~last'.opened =>
               /\ fs' = fs
               /\ UNCHANGED <<session, open_files, nlines, rotated, console>>
               /\ ~last'.checked /\ ~last'.required /\ ~last'.renamed
               /\ ~last'.appended
         /\ (~last'.denied /\ _log_file_to_use # "") =>
               /\ last'.opened /\ last'.appended
               /\ nlines' = nlines + 1
               /\ _log_file_to_use' \in DOMAIN fs'
               /\ fs'[_log_file_to_use'].data[
                       Len(fs'[_log_file_to_use'].data)] =
                     NextLine(last'.level)]_vars

\* C15 happens: the system refused the fopen of a write to a log file that
\* holds lines of the day before, in a session with DAYLY_ROTATION
WitnessC15 ==
    /\ pc = "run" /\ ~_on_console_only /\ _log_rotation = DAYLY_ROTATION
    /\ last.kind = "file" /\ ~last.opened /\ last.denied
    /\ _log_file_to_use \in DOMAIN fs
    /\ Len(fs[_log_file_to_use].data) >= 1
    /\ ~SameDay(localtime(fs[_log_file_to_use].mtime), localtime(now))

\* C16: no stream stays open between messages.  After every return of
\* log_message (ignored or handled, to the console or to a file, with or
\* without rotation, whatever system call failed) _log_file_pointer is NULL
\* and no stream is open, and during the call at most one stream was open
\* at a time.
TheoremC16 ==
    [][MessageStep =>
         /\ _log_file_pointer' = NULL
         /\ open_files' = 0
         /\ last'.peak <= 1
         /\ last'.opened => last'.peak = 1]_vars

\* C16 happens: a write closed its stream for the rotation check, rotated,
\* opened the new file, wrote and closed again
WitnessC16 ==
    /\ pc = "run" /\ ~_on_console_only
    /\ last.kind = "file" /\ last.opened /\ last.required /\ last.renamed
    /\ last.appended /\ last.peak = 1
    /\ _log_file_pointer = NULL /\ open_files = 0

\* a step that is a call of dispose_logging (a second call in a row is a
\* stuttering step)
DisposeStep == last'.kind = "dispose" /\ last.kind # "dispose"

\* C17: dispose_logging, called at any point of any sequence of init_log,
\* log_message and dispose_logging calls, finds no stream open and changes
\* nothing: no file is deleted, renamed or written, the session state stays
\* as it is, and another call right after it changes nothing again.  On the
\* open stream of a write, closing twice is the same as closing once.
TheoremC17 ==
    [][DisposeStep =>
         /\ fs' = fs
         /\ UNCHANGED <<pc, session, open_files, now, console, cfg, nlines,
                        rotated>>
         /\ _log_file_pointer' = NULL /\ open_files' = 0
         /\ DisposeLogging(Handle(_log_file_pointer', open_files')) =
               Handle(_log_file_pointer', open_files')
         /\ LET h == Handle(_log_file_to_use, open_files + 1)
            IN /\ DisposeLogging(h) = Handle(NULL, open_files)
               /\ DisposeLogging(DisposeLogging(h)) = DisposeLogging(h)]_vars

\* C17 happens: dispose_logging was called after lines were written to a
\* file, and the file is there with its lines
WitnessC17 ==
    /\ pc = "run" /\ ~_on_console_only
    /\ last.kind = "dispose"
    /\ nlines >= 2
    /\ _log_file_to_use \in DOMAIN fs
    /\ Len(fs[_log_file_to_use].data) = nlines

---------------------------------------------------------------------------
(* Properties of repeated init_log calls (SpecInit)                        *)

\* the session init_log(log) leaves in a fresh process when log asks for
\* file output: the console flag, the rotation mode, the number of files to
\* keep, the active and the base file name
FreshSession(log) ==
    LET name == EffectiveName(log, CHOOSE n \in strlen_file_name(log) : TRUE)
    IN <<FALSE, EffectiveRotation(log), EffectiveKeep(log), name, name>>

\* the size threshold init_log(log) leaves in a fresh process
FreshSize(log) == Mul32(BytesPerMB, log.file_size_in_mb)

\* C24: the session after an init_log call depends only on the struct of
\* that call: after any number of earlier init_log calls the console flag
\* is the one of the struct and, with file output, the rotation mode, number
\* of files to keep and file names are those the same call leaves in a
\* fresh process, and so is the size threshold under SIZE_ROTATION.
ClaimC24 ==
    pc = "run" =>
        IF cfg.on_console_only
        THEN _on_console_only
        ELSE /\ <<_on_console_only, _log_rotation, _nbr_of_keeping_files,
                  _log_file_to_use, _base_log_file>> = FreshSession(cfg)
             /\ EffectiveRotation(cfg) = SIZE_ROTATION =>
                   _size_for_file_size = FreshSize(cfg)

====
